---------------------------- MODULE Spec2Model ----------------------------
(***************************************************************************)
(* Overlay control layer of the table block and the block handle.          *)
(*                                                                         *)
(*   - useOperation  (table-block/view/operation.ts): the gesture handlers *)
(*     onAddRow, onAddCol, selectRow, selectCol, deleteSelected, onAlign   *)
(*     and the commands they send through commandsCtx.                     *)
(*   - BlockProvider (block-provider.ts, kept as src/unnamed/part_000):    *)
(*     update / #init / destroy / show / hide and the asynchronous         *)
(*     computePosition promise.                                            *)
(*                                                                         *)
(* The two components share no state.  Spec runs the insert gestures,      *)
(* SpecSelect the select gestures, SpecHandlers every handler on a small   *)
(* table, SpecFocus the delete and align gestures with the render frames,  *)
(* SpecProvider the block provider built with default options              *)
(* (SpecProviderFair with the render frames being run), SpecSolver         *)
(* show() and hide() on a provider built with any options.                 *)
(***************************************************************************)
EXTENDS Integers, Sequences, FiniteSets, TLC

\* ------------------------------------------------------------------ bounds
MaxRows   == 4   \* most rows of the table under Spec
MaxCols   == 3   \* most columns of the table under Spec
SmallTable == 2  \* SpecHandlers: inserts while rows + columns is at most this
MaxQueue  == 1   \* most requestAnimationFrame callbacks waiting for a frame
TablePos  == 6   \* a document position getPos() returns
MaxUpdates == 2  \* most update() calls in a run of the provider
MaxShows  == 2   \* most computePosition calls in a run of the provider
MaxWaiting == 2  \* SpecFocus: most focus callbacks waiting for a frame

VARIABLES
    \* ---- useOperation -------------------------------------------------
    hasCtx,        \* the optional ctx argument was supplied
    editable,      \* ctx.get(editorViewCtx).editable
    rows,          \* the table's rows, first to last; "new" marks the row
                   \* made by the latest insert-row command
    cols,          \* the table's columns, likewise
    selection,     \* the document's cell selection: none, a row or a column
    cmds,          \* what the latest handler run sent to commandsCtx, in order
    xLineShow,     \* xLineHandleRef.value.dataset.show
    rowGroupShow,  \* dataset.show of the row handle's .button-group
    colGroupShow,  \* dataset.show of the col handle's .button-group
    rafQueue,      \* callbacks the handlers gave to requestAnimationFrame
    focused,       \* the editor view has input focus
    eventHandled,  \* preventDefault/stopPropagation were called on the
                   \* latest pointer event given to deleteSelected/onAlign
    last           \* the latest handler run and whether it got past its
                   \* early returns

opVars == <<hasCtx, editable, rows, cols, selection, cmds, last, xLineShow,
            rowGroupShow, colGroupShow, rafQueue, focused, eventHandled>>

\* ---- BlockProvider ---------------------------------------------------
VARIABLES
    viewReady,     \* editorViewCtx is in the ctx: the editor surface is mounted
    serviceReady,  \* blockServiceInstance is in the ctx
    initialized,   \* #initialized
    service,       \* #service is set
    attached,      \* #element is in the document
    draggable,     \* #element.draggable
    bound,         \* the service's callback slot holds this provider's handler
    listeners,     \* the service's gesture listeners are on #element
    show,          \* #element.dataset.show
    position,      \* #element.style left/top: the node they were computed for
    activeNode,    \* #activeNode
    pending,       \* computePosition promises not settled yet, oldest first,
                   \* each named by the node it was started for
    frames,        \* update() callbacks waiting for a render frame
    diag,          \* errors given to console.error
    thrown,        \* some call has thrown to its caller
    updates,       \* update() calls so far
    shows,         \* computePosition calls so far
    initCalls,     \* #init() runs started so far
    initOk,        \* #init() runs that returned
    lastCall,      \* the later of the latest show() and the latest hide()
    destroyed,     \* destroy() has been called
    options,       \* the BlockProviderOptions given to the constructor
    solverArgs,    \* the arguments of the latest computePosition call
    lastMessage,   \* the latest message the service gave to the bound handler
    hidFrom,       \* what dataset.show was when the latest hide() was called
    destroyedAgain \* destroy() has been called on a destroyed provider

bpVars == <<viewReady, serviceReady, initialized, service, attached, draggable,
            bound, listeners, show, position, activeNode, pending, frames,
            diag, thrown, updates, shows, initCalls, initOk, lastCall,
            destroyed, options, solverArgs, lastMessage, hidFrom,
            destroyedAgain>>

vars == <<opVars, bpVars>>

\* ------------------------------------------------------ sequence helpers
InsertAt(s, i, e) == SubSeq(s, 1, i) \o <<e>> \o SubSeq(s, i + 1, Len(s))

RemoveAt(s, i) == SubSeq(s, 1, i) \o SubSeq(s, i + 2, Len(s))

Unmark(s) == [k \in 1..Len(s) |-> "old"]

\* ----------------------------------------------------------- commands
SelectRow(pos, index) == [op |-> "select-row", pos |-> pos, index |-> index]

SelectCol(pos, index) == [op |-> "select-col", pos |-> pos, index |-> index]

AddRowBefore == [op |-> "insert-row-before"]

AddRowAfter == [op |-> "insert-row-after"]

AddColBefore == [op |-> "insert-col-before"]

AddColAfter == [op |-> "insert-col-after"]

DeleteSelectedCells == [op |-> "delete-selected-cells"]

SetAlign(direction) == [op |-> "set-align", direction |-> direction]

Directions == {"left", "center", "right"}

\* The commands that change the document (the select commands only move
\* the selection).
MutatingOps == {"insert-row-before", "insert-row-after", "insert-col-before",
                "insert-col-after", "delete-selected-cells", "set-align"}

\* ------------------------------------------------------- the Command Bus
NoSelection == [kind |-> "none", index |-> -1]

RowSelection(i) == [kind |-> "row", index |-> i]

ColSelection(i) == [kind |-> "col", index |-> i]

\* One command run against the document d = [rows, cols, sel].  Indices
\* are 0-based as in the handlers.  A command that does not apply (index
\* out of range, no fitting selection, last row or column) changes nothing.
Call(c, d) ==
    CASE c.op = "select-row" ->
           IF c.index >= 0 /\ c.index < Len(d.rows)
           THEN [d EXCEPT !.sel = RowSelection(c.index)] ELSE d
      [] c.op = "select-col" ->
           IF c.index >= 0 /\ c.index < Len(d.cols)
           THEN [d EXCEPT !.sel = ColSelection(c.index)] ELSE d
      [] c.op = "insert-row-before" ->
           IF d.sel.kind = "row"
           THEN [d EXCEPT !.rows = InsertAt(Unmark(d.rows), d.sel.index, "new"),
                          !.sel = RowSelection(d.sel.index + 1)]
           ELSE d
      [] c.op = "insert-row-after" ->
           IF d.sel.kind = "row"
           THEN [d EXCEPT !.rows = InsertAt(Unmark(d.rows), d.sel.index + 1, "new")]
           ELSE d
      [] c.op = "insert-col-before" ->
           IF d.sel.kind = "col"
           THEN [d EXCEPT !.cols = InsertAt(Unmark(d.cols), d.sel.index, "new"),
                          !.sel = ColSelection(d.sel.index + 1)]
           ELSE d
      [] c.op = "insert-col-after" ->
           IF d.sel.kind = "col"
           THEN [d EXCEPT !.cols = InsertAt(Unmark(d.cols), d.sel.index + 1, "new")]
           ELSE d
      [] c.op = "delete-selected-cells" ->
           IF d.sel.kind = "row" /\ Len(d.rows) > 1
           THEN [d EXCEPT !.rows = RemoveAt(d.rows, d.sel.index),
                          !.sel = NoSelection]
           ELSE IF d.sel.kind = "col" /\ Len(d.cols) > 1
           THEN [d EXCEPT !.cols = RemoveAt(d.cols, d.sel.index),
                          !.sel = NoSelection]
           ELSE d
      [] OTHER -> d

RECURSIVE CallAll(_, _)
CallAll(cs, d) ==
    IF cs = <<>> THEN d ELSE CallAll(Tail(cs), Call(Head(cs), d))

Doc == [rows |-> rows, cols |-> cols, sel |-> selection]

\* The handler sends cs, in order, each run by the bus as it is sent.
Send(cs) ==
    LET d == CallAll(cs, Doc)
    IN  /\ cmds' = cs
        /\ rows' = d.rows
        /\ cols' = d.cols
        /\ selection' = d.sel

SendNothing ==
    /\ cmds' = <<>>
    /\ UNCHANGED <<rows, cols, selection>>

\* ------------------------------------------------------ handler inputs
\* lineHoverIndex / hoverIndex components: -1 when nothing is hovered.
Indices(n) == -1..n

\* getPos?.(): <<>> stands for undefined (no getPos, or it returns undefined).
GetPosResults == {<<>>, <<TablePos>>}

Pos(getPos) == (IF getPos = <<>> THEN 0 ELSE getPos[1]) + 1

\* dataset.show === 'true' ? 'false' : 'true'
Toggle(flag) == IF flag = "true" THEN "false" ELSE "true"

\* ---------------------------------------------------------------- onAddRow
Ran(handler, passed) == last' = [handler |-> handler, passed |-> passed]

\* The early returns of onAddRow.
CanAddRow(xHandle, rowIndex) ==
    /\ hasCtx
    /\ xHandle
    /\ rowIndex >= 0
    /\ editable

\* rows.length: the tr elements under the content wrapper, none without it.
RowsRead(wrapper) == IF wrapper THEN Len(rows) ELSE 0

\* Mutant: the trailing edge is not told apart, every insert goes before.
AddRowCommandsNoAppend(rowCount, rowIndex, pos) ==
    <<SelectRow(pos, rowIndex), AddRowBefore, SelectRow(pos, rowIndex)>>

\* Mutant: the closing re-select is left out.
AddRowCommandsNoReselect(rowCount, rowIndex, pos) ==
    IF rowCount = rowIndex
    THEN <<SelectRow(pos, rowIndex - 1), AddRowAfter>>
    ELSE <<SelectRow(pos, rowIndex), AddRowBefore>>

AddRowCommands(rowCount, rowIndex, pos) ==
    (IF rowCount = rowIndex
     THEN <<SelectRow(pos, rowIndex - 1), AddRowAfter>>
     ELSE <<SelectRow(pos, rowIndex), AddRowBefore>>)
    \o <<SelectRow(pos, rowIndex)>>

onAddRow(xHandle, rowIndex, wrapper, getPos) ==
    /\ Ran("onAddRow", CanAddRow(xHandle, rowIndex))
    /\ IF CanAddRow(xHandle, rowIndex)
       THEN /\ Send(AddRowCommands(RowsRead(wrapper), rowIndex, Pos(getPos)))
            /\ xLineShow' = "false"
       ELSE /\ SendNothing
            /\ UNCHANGED xLineShow
    /\ UNCHANGED <<hasCtx, editable, rowGroupShow, colGroupShow, rafQueue,
                   focused, eventHandled>>

\* ---------------------------------------------------------------- onAddCol
CanAddCol(xHandle, colIndex) ==
    /\ hasCtx
    /\ xHandle
    /\ colIndex >= 0
    /\ editable

\* cols.length: the children of the first tr under the content wrapper.
ColsRead(wrapper) == IF wrapper THEN Len(cols) ELSE 0

\* Mutant: the two insert commands are swapped.
AddColCommandsSwapped(colCount, colIndex, pos) ==
    (IF colCount = colIndex
     THEN <<SelectCol(pos, colIndex - 1), AddColBefore>>
     ELSE <<SelectCol(pos, colIndex), AddColAfter>>)
    \o <<SelectCol(pos, colIndex)>>

AddColCommands(colCount, colIndex, pos) ==
    (IF colCount = colIndex
     THEN <<SelectCol(pos, colIndex - 1), AddColAfter>>
     ELSE <<SelectCol(pos, colIndex), AddColBefore>>)
    \o <<SelectCol(pos, colIndex)>>

\* Mutant: onAddCol hides the gridline handle as onAddRow does.
onAddColHidesLine(xHandle, colIndex, wrapper, getPos) ==
    /\ Ran("onAddCol", CanAddCol(xHandle, colIndex))
    /\ IF CanAddCol(xHandle, colIndex)
       THEN /\ Send(AddColCommands(ColsRead(wrapper), colIndex, Pos(getPos)))
            /\ xLineShow' = "false"
       ELSE /\ SendNothing
            /\ UNCHANGED xLineShow
    /\ UNCHANGED <<hasCtx, editable, rowGroupShow, colGroupShow, rafQueue,
                   focused, eventHandled>>

onAddCol(xHandle, colIndex, wrapper, getPos) ==
    /\ Ran("onAddCol", CanAddCol(xHandle, colIndex))
    /\ IF CanAddCol(xHandle, colIndex)
       THEN Send(AddColCommands(ColsRead(wrapper), colIndex, Pos(getPos)))
       ELSE SendNothing
    /\ UNCHANGED <<hasCtx, editable, xLineShow, rowGroupShow, colGroupShow,
                   rafQueue, focused, eventHandled>>

\* --------------------------------------------------------------- selectCol
\* Whether selectCol flips the button group's flag.
ColToggles(colIndex, buttonGroup) == buttonGroup

selectCol(colIndex, buttonGroup, getPos) ==
    /\ Ran("selectCol", hasCtx)
    /\ IF hasCtx
       THEN /\ Send(<<SelectCol(Pos(getPos), colIndex)>>)
            /\ colGroupShow' = IF ColToggles(colIndex, buttonGroup)
                               THEN Toggle(colGroupShow)
                               ELSE colGroupShow
       ELSE /\ SendNothing
            /\ UNCHANGED colGroupShow
    /\ UNCHANGED <<hasCtx, editable, xLineShow, rowGroupShow, rafQueue,
                   focused, eventHandled>>

\* --------------------------------------------------------------- selectRow
\* Whether selectRow flips the button group's flag.
\* Mutant: the header row toggles too.
RowTogglesHeaderToo(rowIndex, buttonGroup) == buttonGroup /\ rowIndex >= 0

RowToggles(rowIndex, buttonGroup) == buttonGroup /\ rowIndex > 0

selectRow(rowIndex, buttonGroup, getPos) ==
    /\ Ran("selectRow", hasCtx)
    /\ IF hasCtx
       THEN /\ Send(<<SelectRow(Pos(getPos), rowIndex)>>)
            /\ rowGroupShow' = IF RowToggles(rowIndex, buttonGroup)
                               THEN Toggle(rowGroupShow)
                               ELSE rowGroupShow
       ELSE /\ SendNothing
            /\ UNCHANGED rowGroupShow
    /\ UNCHANGED <<hasCtx, editable, xLineShow, colGroupShow, rafQueue,
                   focused, eventHandled>>

\* -------------------------------------------------- deleteSelected, onAlign
\* The early returns of deleteSelected.
\* Mutant: the editable check is left out.
CanDeleteReadOnly == hasCtx

CanDelete == hasCtx /\ editable

\* Mutant: focus() is called in the handler, not in a frame callback.
deleteSelectedFocusesNow ==
    /\ Ran("deleteSelected", CanDelete)
    /\ IF CanDelete
       THEN /\ eventHandled' = TRUE
            /\ Send(<<DeleteSelectedCells>>)
            /\ focused' = TRUE
       ELSE /\ eventHandled' = FALSE
            /\ SendNothing
            /\ UNCHANGED focused
    /\ UNCHANGED <<hasCtx, editable, xLineShow, rowGroupShow, colGroupShow,
                   rafQueue>>

deleteSelected ==
    /\ Ran("deleteSelected", CanDelete)
    /\ IF CanDelete
       THEN /\ eventHandled' = TRUE
            /\ Send(<<DeleteSelectedCells>>)
            /\ rafQueue' = Append(rafQueue, "deleteSelected")
       ELSE /\ eventHandled' = FALSE
            /\ SendNothing
            /\ UNCHANGED rafQueue
    /\ UNCHANGED <<hasCtx, editable, xLineShow, rowGroupShow, colGroupShow,
                   focused>>

\* The early returns of onAlign(direction).
CanAlign == hasCtx /\ editable

onAlign(direction) ==
    /\ Ran("onAlign", CanAlign)
    /\ IF CanAlign
       THEN /\ eventHandled' = TRUE
            /\ Send(<<SetAlign(direction)>>)
            /\ rafQueue' = Append(rafQueue, "onAlign")
       ELSE /\ eventHandled' = FALSE
            /\ SendNothing
            /\ UNCHANGED rafQueue
    /\ UNCHANGED <<hasCtx, editable, xLineShow, rowGroupShow, colGroupShow,
                   focused>>

\* The render frame runs the oldest queued callback: ctx.get(editorViewCtx).focus()
FocusFrame ==
    /\ rafQueue # <<>>
    /\ rafQueue' = Tail(rafQueue)
    /\ focused' = TRUE
    /\ UNCHANGED <<hasCtx, editable, rows, cols, selection, cmds, last,
                   xLineShow, rowGroupShow, colGroupShow, eventHandled>>

\* ------------------------------------------------------------ environment
\* The host switches the editor between editable and read-only.
SetEditable ==
    /\ editable' = ~editable
    /\ UNCHANGED <<hasCtx, rows, cols, selection, cmds, last, xLineShow,
                   rowGroupShow, colGroupShow, rafQueue, focused, eventHandled>>

\* The pointer code of the view shows the gridline handle over a gridline.
PointerOverLine ==
    /\ xLineShow # "true"
    /\ xLineShow' = "true"
    /\ UNCHANGED <<hasCtx, editable, rows, cols, selection, cmds, last,
                   rowGroupShow, colGroupShow, rafQueue, focused, eventHandled>>

\* ============================================================ BlockProvider
\* The nodes a show() is called for.
Nodes == {"A", "B"}

\* An optional value: Undefined when it is not there, Some(v) when it is v.
Undefined == <<>>

Some(v) == <<v>>

\* options.middleware ?? []: the caller's extra rules, each one named.
ExtraRules == {<<>>, <<"shift">>, <<"shift", "arrow">>}

\* options.floatingUIOptions ?? {}: a Partial<ComputePositionConfig>, of
\* which computePosition reads the placement and the middleware.
Overrides ==
    [placement : {Undefined, Some("top")},
     middleware : {Undefined, Some(<<"size">>)}]

\* BlockProviderOptions: getOffset supplied or not, what getPlacement
\* returns when it is supplied, the extra rules and the solver options.
Options ==
    [getOffset : BOOLEAN,
     getPlacement : {Undefined, Some("right")},
     middleware : ExtraRules,
     floatingUIOptions : Overrides]

DefaultOptions ==
    [getOffset |-> FALSE,
     getPlacement |-> Undefined,
     middleware |-> <<>>,
     floatingUIOptions |-> [placement |-> Undefined, middleware |-> Undefined]]

\* const middleware = [flip()]; if (#getOffset) middleware.push(offset(...))
BuiltIns(o) == <<"flip">> \o (IF o.getOffset THEN <<"offset">> ELSE <<>>)

\* #getPlacement ? #getPlacement(deriveContext) : 'left'
Placement(o) ==
    IF o.getPlacement # Undefined THEN o.getPlacement[1] ELSE "left"

\* { ...base, ...over }: a key that over has takes over's value.
Spread(base, over) ==
    [k \in DOMAIN base |-> IF over[k] # Undefined THEN over[k][1] ELSE base[k]]

\* The third argument of computePosition.
SolverConfig(o) ==
    Spread([placement |-> Placement(o),
            middleware |-> BuiltIns(o) \o o.middleware],
           o.floatingUIOptions)

\* computePosition(virtualEl, #element, config): the reference is the
\* virtual element made for the active node.
SolverCall(active, o) == [reference |-> active, config |-> SolverConfig(o)]

\* The constructor stores its options and calls hide().
InitProvider ==
    /\ viewReady \in BOOLEAN
    /\ serviceReady \in BOOLEAN
    /\ initialized = FALSE
    /\ service = FALSE
    /\ attached = FALSE
    /\ draggable = FALSE
    /\ bound = FALSE
    /\ listeners = FALSE
    /\ show = "false"
    /\ position = "unset"
    /\ activeNode = "null"
    /\ pending = <<>>
    /\ frames = 0
    /\ diag = 0
    /\ thrown = FALSE
    /\ updates = 0
    /\ shows = 0
    /\ initCalls = 0
    /\ initOk = 0
    /\ lastCall = "hide"
    /\ destroyed = FALSE
    /\ options \in Options
    /\ solverArgs = Undefined
    /\ lastMessage = "none"
    /\ hidFrom = "undefined"
    /\ destroyedAgain = FALSE

\* ------------------------------------------------------------------- #init
\* How far #init() gets: ctx.get(editorViewCtx) throws while the surface is
\* not mounted, ctx.get(blockServiceInstance.key) throws while the block
\* service is not there; past both, #init() returns.
InitOutcome ==
    IF ~viewReady THEN "no-view"
    ELSE IF ~serviceReady THEN "no-service"
    ELSE "done"

\* root.appendChild(#element) runs once the view is there.
AttachedAfter(outcome) == IF outcome = "no-view" THEN attached ELSE TRUE

\* Mutant: #initialized is set whether or not #init() threw.
InitializedAfterAnyAttempt(outcome) == TRUE

\* #initialized = true is reached only when #init() returned.
InitializedAfter(outcome) == outcome = "done"

\* Mutant: the callback does not look at #initialized.
NeedsInitAlways == TRUE

\* if (!this.#initialized)
NeedsInit == ~initialized

\* ------------------------------------------------------------------ update
update ==
    /\ frames' = frames + 1
    /\ updates' = updates + 1
    /\ UNCHANGED <<viewReady, serviceReady, initialized, service, attached,
                   draggable, bound, listeners, show, position, activeNode,
                   pending, diag, thrown, shows, initCalls, initOk, lastCall,
                   destroyed>>
    /\ UNCHANGED <<options, solverArgs, lastMessage, hidFrom,
                   destroyedAgain>>

\* The render frame runs the oldest update() callback.
InitFrame ==
    /\ frames > 0
    /\ frames' = frames - 1
    /\ IF NeedsInit
       THEN /\ initCalls' = initCalls + 1
            /\ attached' = AttachedAfter(InitOutcome)
            /\ IF InitOutcome = "done"
               THEN /\ bound' = TRUE
                    /\ service' = TRUE
                    /\ listeners' = TRUE
                    /\ draggable' = TRUE
                    /\ initOk' = initOk + 1
               ELSE UNCHANGED <<bound, service, listeners, draggable, initOk>>
            /\ initialized' = InitializedAfter(InitOutcome)
       ELSE UNCHANGED <<initCalls, attached, bound, service, listeners,
                        draggable, initOk, initialized>>
    /\ UNCHANGED <<viewReady, serviceReady, show, position, activeNode,
                   pending, diag, thrown, updates, shows, lastCall, destroyed>>
    /\ UNCHANGED <<options, solverArgs, lastMessage, hidFrom,
                   destroyedAgain>>

\* ----------------------------------------------------------------- destroy
\* BlockService.unBind() and BlockService.removeEvent(element): the callback
\* slot is emptied and the gesture listeners are taken off the element; with
\* nothing bound, or no listener on, they change nothing and raise nothing.
AfterUnBind(b) == FALSE

AfterRemoveEvent(l) == FALSE

\* Mutant: #service.unBind() without the optional chaining.
destroyUnguarded ==
    /\ IF service
       THEN /\ bound' = AfterUnBind(bound)
            /\ listeners' = AfterRemoveEvent(listeners)
            /\ attached' = FALSE
            /\ UNCHANGED thrown
       ELSE /\ thrown' = TRUE
            /\ UNCHANGED <<bound, listeners, attached>>
    /\ destroyed' = TRUE
    /\ destroyedAgain' = (destroyedAgain \/ destroyed)
    /\ UNCHANGED <<viewReady, serviceReady, initialized, service, draggable,
                   show, position, activeNode, pending, frames, diag, updates,
                   shows, initCalls, initOk, lastCall>>
    /\ UNCHANGED <<options, solverArgs, lastMessage, hidFrom>>

\* Mutant: the element is taken out with parentNode.removeChild, which
\* raises when the element is in no document.
destroyRemoveChild ==
    /\ bound' = IF service THEN AfterUnBind(bound) ELSE bound
    /\ listeners' = IF service THEN AfterRemoveEvent(listeners) ELSE listeners
    /\ attached' = FALSE
    /\ thrown' = (thrown \/ ~attached)
    /\ destroyed' = TRUE
    /\ destroyedAgain' = (destroyedAgain \/ destroyed)
    /\ UNCHANGED <<viewReady, serviceReady, initialized, service, draggable,
                   show, position, activeNode, pending, frames, diag,
                   updates, shows, initCalls, initOk, lastCall>>
    /\ UNCHANGED <<options, solverArgs, lastMessage, hidFrom>>

destroy ==
    /\ bound' = IF service THEN AfterUnBind(bound) ELSE bound
    /\ listeners' = IF service THEN AfterRemoveEvent(listeners) ELSE listeners
    /\ attached' = FALSE
    /\ destroyed' = TRUE
    /\ destroyedAgain' = (destroyedAgain \/ destroyed)
    /\ UNCHANGED <<viewReady, serviceReady, initialized, service, draggable,
                   show, position, activeNode, pending, frames, diag, thrown,
                   updates, shows, initCalls, initOk, lastCall>>
    /\ UNCHANGED <<options, solverArgs, lastMessage, hidFrom>>

\* -------------------------------------------------------------- show, hide
\* show(active): ctx.get(editorViewCtx) throws while the surface is not
\* mounted; otherwise computePosition is called and its promise is left to
\* settle later.
ShowBody(active) ==
    IF viewReady
    THEN /\ pending' = Append(pending, active)
         /\ solverArgs' = Some(SolverCall(active, options))
         /\ shows' = shows + 1
         /\ UNCHANGED thrown
    ELSE /\ thrown' = TRUE
         /\ UNCHANGED <<pending, solverArgs, shows>>

\* Mutant: hide() flips the flag instead of clearing it.
HideBodyFlips ==
    /\ show' = Toggle(show)
    /\ hidFrom' = show

HideBody ==
    /\ show' = "false"
    /\ hidFrom' = show

\* Mutant: show() sets the flag itself, before the promise settles.
ShowEager(active) ==
    /\ ShowBody(active)
    /\ show' = "true"
    /\ lastCall' = "show"
    /\ UNCHANGED <<viewReady, serviceReady, initialized, service, attached,
                   draggable, bound, listeners, position, activeNode,
                   frames, diag, updates, initCalls, initOk, destroyed>>
    /\ UNCHANGED <<options, lastMessage, hidFrom, destroyedAgain>>

Show(active) ==
    /\ ShowBody(active)
    /\ lastCall' = "show"
    /\ UNCHANGED <<viewReady, serviceReady, initialized, service, attached,
                   draggable, bound, listeners, show, position, activeNode,
                   frames, diag, updates, initCalls, initOk, destroyed>>
    /\ UNCHANGED <<options, lastMessage, hidFrom,
                   destroyedAgain>>

Hide ==
    /\ HideBody
    /\ lastCall' = "hide"
    /\ UNCHANGED <<viewReady, serviceReady, initialized, service, attached,
                   draggable, bound, listeners, position, activeNode, pending,
                   frames, diag, thrown, updates, shows, initCalls, initOk,
                   destroyed>>
    /\ UNCHANGED <<options, solverArgs, lastMessage, destroyedAgain>>

\* The promise of pending[k] is fulfilled: the .then callback.
Resolve(k) ==
    /\ k \in 1..Len(pending)
    /\ position' = pending[k]
    /\ show' = "true"
    /\ pending' = RemoveAt(pending, k - 1)
    /\ UNCHANGED <<viewReady, serviceReady, initialized, service, attached,
                   draggable, bound, listeners, activeNode, frames, diag,
                   thrown, updates, shows, initCalls, initOk, lastCall,
                   destroyed>>
    /\ UNCHANGED <<options, solverArgs, lastMessage, hidFrom,
                   destroyedAgain>>

\* Mutant: a failed computation hides the element.
RejectHiding(k) ==
    /\ k \in 1..Len(pending)
    /\ diag' = diag + 1
    /\ show' = "false"
    /\ pending' = RemoveAt(pending, k - 1)
    /\ UNCHANGED <<viewReady, serviceReady, initialized, service, attached,
                   draggable, bound, listeners, position, activeNode, frames,
                   thrown, updates, shows, initCalls, initOk, lastCall,
                   destroyed>>
    /\ UNCHANGED <<options, solverArgs, lastMessage, hidFrom,
                   destroyedAgain>>

\* The promise of pending[k] is rejected: .catch(console.error).
Reject(k) ==
    /\ k \in 1..Len(pending)
    /\ diag' = diag + 1
    /\ pending' = RemoveAt(pending, k - 1)
    /\ UNCHANGED <<viewReady, serviceReady, initialized, service, attached,
                   draggable, bound, listeners, show, position, activeNode,
                   frames, thrown, updates, shows, initCalls, initOk, lastCall,
                   destroyed>>
    /\ UNCHANGED <<options, solverArgs, lastMessage, hidFrom,
                   destroyedAgain>>

\* ------------------------------------------------- the service's messages
\* The handler given to service.bind, called with {type: 'show', active}.
OnShowMessage(active) ==
    /\ bound
    /\ ShowBody(active)
    /\ lastCall' = "show"
    /\ activeNode' = IF viewReady THEN active ELSE activeNode
    /\ UNCHANGED <<viewReady, serviceReady, initialized, service, attached,
                   draggable, bound, listeners, show, position, frames, diag,
                   updates, initCalls, initOk, destroyed>>
    /\ lastMessage' = active
    /\ UNCHANGED <<options, hidFrom, destroyedAgain>>

\* Mutant: the hide branch leaves #activeNode as it is.
OnHideMessageKeepsActive ==
    /\ bound
    /\ HideBody
    /\ lastCall' = "hide"
    /\ lastMessage' = "hide"
    /\ UNCHANGED <<viewReady, serviceReady, initialized, service, attached,
                   draggable, bound, listeners, position, activeNode, pending,
                   frames, diag, thrown, updates, shows, initCalls, initOk,
                   destroyed>>
    /\ UNCHANGED <<options, solverArgs, destroyedAgain>>

\* The handler called with {type: 'hide'}.
OnHideMessage ==
    /\ bound
    /\ HideBody
    /\ lastCall' = "hide"
    /\ activeNode' = "null"
    /\ UNCHANGED <<viewReady, serviceReady, initialized, service, attached,
                   draggable, bound, listeners, position, pending, frames,
                   diag, thrown, updates, shows, initCalls, initOk, destroyed>>
    /\ lastMessage' = "hide"
    /\ UNCHANGED <<options, solverArgs, destroyedAgain>>

\* ------------------------------------------------------------ environment
\* The editor mounts its surface: editorViewCtx becomes available.
MountView ==
    /\ ~viewReady
    /\ viewReady' = TRUE
    /\ UNCHANGED <<serviceReady, initialized, service, attached, draggable,
                   bound, listeners, show, position, activeNode, pending,
                   frames, diag, thrown, updates, shows, initCalls, initOk,
                   lastCall, destroyed>>
    /\ UNCHANGED <<options, solverArgs, lastMessage, hidFrom,
                   destroyedAgain>>

\* The block plugin puts its service in the ctx.
LoadService ==
    /\ ~serviceReady
    /\ serviceReady' = TRUE
    /\ UNCHANGED <<viewReady, initialized, service, attached, draggable,
                   bound, listeners, show, position, activeNode, pending,
                   frames, diag, thrown, updates, shows, initCalls, initOk,
                   lastCall, destroyed>>
    /\ UNCHANGED <<options, solverArgs, lastMessage, hidFrom,
                   destroyedAgain>>

\* ------------------------------------------------------------------- Spec
\* The view is built over a table of any size, with any selection in it.
\* The template renders the button groups with data-show="false".
InitOperation(maxRows, maxCols) ==
    /\ hasCtx \in BOOLEAN
    /\ editable \in BOOLEAN
    /\ \E n \in 1..maxRows : rows = [k \in 1..n |-> "old"]
    /\ \E n \in 1..maxCols : cols = [k \in 1..n |-> "old"]
    /\ selection \in {NoSelection}
                      \cup {RowSelection(i) : i \in 0..(Len(rows) - 1)}
                      \cup {ColSelection(i) : i \in 0..(Len(cols) - 1)}
    /\ cmds = <<>>
    /\ last = [handler |-> "none", passed |-> FALSE]
    /\ xLineShow = "false"
    /\ rowGroupShow = "false"
    /\ colGroupShow = "false"
    /\ rafQueue = <<>>
    /\ focused = FALSE
    /\ eventHandled = FALSE

AddRowGesture(RowIndices) ==
    \E x \in BOOLEAN, i \in RowIndices, w \in BOOLEAN, g \in GetPosResults :
        onAddRow(x, i, w, g)

AddColGesture(ColIndices) ==
    \E x \in BOOLEAN, i \in ColIndices, w \in BOOLEAN, g \in GetPosResults :
        onAddCol(x, i, w, g)

SelectRowGesture(RowIndices) ==
    \E i \in RowIndices, b \in BOOLEAN, g \in GetPosResults : selectRow(i, b, g)

SelectColGesture(ColIndices) ==
    \E i \in ColIndices, b \in BOOLEAN, g \in GetPosResults : selectCol(i, b, g)

AlignGesture == \E d \in Directions : onAlign(d)

\* Under the specifications of the handlers the provider stays as built.
ProviderIdle ==
    InitProvider /\ viewReady /\ serviceReady /\ options = DefaultOptions

\* Spec: the insert gestures on a table of up to MaxRows x MaxCols.
Init == InitOperation(MaxRows - 1, MaxCols - 1) /\ ProviderIdle

Next ==
    \/ (Len(rows) < MaxRows
        /\ AddRowGesture(Indices(MaxRows))
        /\ UNCHANGED bpVars)
    \/ (Len(cols) < MaxCols
        /\ AddColGesture(Indices(MaxCols))
        /\ UNCHANGED bpVars)
    \/ (SetEditable /\ UNCHANGED bpVars)
    \/ (PointerOverLine /\ UNCHANGED bpVars)

Spec == Init /\ [][Next]_vars

\* SpecSelect: the select gestures on a table of any size up to MaxRows x MaxCols.
InitSelect == InitOperation(MaxRows, MaxCols) /\ ProviderIdle

NextSelect ==
    \/ (SelectRowGesture(Indices(MaxRows)) /\ UNCHANGED bpVars)
    \/ (SelectColGesture(Indices(MaxCols)) /\ UNCHANGED bpVars)
    \/ (SetEditable /\ UNCHANGED bpVars)

SpecSelect == InitSelect /\ [][NextSelect]_vars

\* SpecHandlers: every handler, on a table that starts with one cell and
\* takes insert gestures while its rows and columns count at most
\* SmallTable together; a frame runs before more than MaxQueue callbacks
\* wait.  The handles here have no button group, so the select gestures flip
\* no flag.
InitHandlers == InitOperation(1, 1) /\ ProviderIdle

HandlerStep ==
    \/ AddRowGesture(Indices(SmallTable))
    \/ AddColGesture(Indices(SmallTable))
    \/ \E i \in Indices(SmallTable), g \in GetPosResults : selectRow(i, FALSE, g)
    \/ \E i \in Indices(SmallTable), g \in GetPosResults : selectCol(i, FALSE, g)
    \/ deleteSelected
    \/ AlignGesture

NextHandlers ==
    \/ (Len(rows) + Len(cols) <= SmallTable
        /\ AddRowGesture(Indices(SmallTable))
        /\ UNCHANGED bpVars)
    \/ (Len(rows) + Len(cols) <= SmallTable
        /\ AddColGesture(Indices(SmallTable))
        /\ UNCHANGED bpVars)
    \/ (\E i \in Indices(SmallTable), g \in GetPosResults : selectRow(i, FALSE, g)
        /\ UNCHANGED bpVars)
    \/ (\E i \in Indices(SmallTable), g \in GetPosResults : selectCol(i, FALSE, g)
        /\ UNCHANGED bpVars)
    \/ (Len(rafQueue) < MaxQueue /\ deleteSelected /\ UNCHANGED bpVars)
    \/ (Len(rafQueue) < MaxQueue /\ AlignGesture /\ UNCHANGED bpVars)
    \/ (FocusFrame /\ UNCHANGED bpVars)
    \/ (SetEditable /\ UNCHANGED bpVars)

SpecHandlers == InitHandlers /\ [][NextHandlers]_vars

\* -------------------------------------------------------------- SpecFocus
\* SpecFocus: the delete and align gestures and the render frames, on a
\* table of up to two rows and two columns with any selection, at most
\* MaxWaiting focus callbacks waiting.
InitFocus == InitOperation(2, 2) /\ ProviderIdle

NextFocus ==
    \/ (Len(rafQueue) < MaxWaiting /\ deleteSelected /\ UNCHANGED bpVars)
    \/ (Len(rafQueue) < MaxWaiting /\ AlignGesture /\ UNCHANGED bpVars)
    \/ (FocusFrame /\ UNCHANGED bpVars)
    \/ (SetEditable /\ UNCHANGED bpVars)

SpecFocus == InitFocus /\ [][NextFocus]_vars

\* ----------------------------------------------------------- SpecProvider
\* SpecProvider: the block provider, with at most MaxUpdates update() calls
\* and MaxShows computePosition calls.
NextProvider ==
    \/ (updates < MaxUpdates /\ update /\ UNCHANGED opVars)
    \/ (InitFrame /\ UNCHANGED opVars)
    \/ (destroy /\ UNCHANGED opVars)
    \/ (shows < MaxShows /\ \E a \in Nodes : Show(a) /\ UNCHANGED opVars)
    \/ (Hide /\ UNCHANGED opVars)
    \/ (\E k \in 1..Len(pending) : Resolve(k) /\ UNCHANGED opVars)
    \/ (\E k \in 1..Len(pending) : Reject(k) /\ UNCHANGED opVars)
    \/ (shows < MaxShows
        /\ \E a \in Nodes : OnShowMessage(a)
        /\ UNCHANGED opVars)
    \/ (OnHideMessage /\ UNCHANGED opVars)
    \/ (MountView /\ UNCHANGED opVars)
    \/ (LoadService /\ UNCHANGED opVars)

\* Under it the table view stays as built, over a table of one cell.
OperationIdle ==
    InitOperation(1, 1) /\ hasCtx /\ editable /\ selection = NoSelection

\* The provider is built with no option but ctx and content.
InitProviderSpec == InitProvider /\ options = DefaultOptions /\ OperationIdle

SpecProvider == InitProviderSpec /\ [][NextProvider]_vars

\* The browser runs every callback given to requestAnimationFrame.
SpecProviderFair == SpecProvider /\ WF_vars(InitFrame /\ UNCHANGED opVars)

\* ------------------------------------------------------------- SpecSolver
\* SpecSolver: show() and hide() on a provider built with any options, and
\* the computePosition promises.
InitSolver == InitProvider /\ serviceReady /\ OperationIdle

NextSolver ==
    \/ (shows < MaxShows /\ \E a \in Nodes : Show(a) /\ UNCHANGED opVars)
    \/ (Hide /\ UNCHANGED opVars)
    \/ (\E k \in 1..Len(pending) : Resolve(k) /\ UNCHANGED opVars)
    \/ (\E k \in 1..Len(pending) : Reject(k) /\ UNCHANGED opVars)
    \/ (MountView /\ UNCHANGED opVars)

SpecSolver == InitSolver /\ [][NextSolver]_vars

\* ================================================================ claims
\* ------------------------------------------------------------------- C1
\* C1: an onAddRow run that gets past its early returns sends exactly three
\* commands, in this order: with rowCount the rows read from the table,
\* select-row(rowIndex-1), insert-row-after, select-row(rowIndex) when
\* rowIndex = rowCount, and select-row(rowIndex), insert-row-before,
\* select-row(rowIndex) otherwise.
C1_AddRowSequence ==
    [][\A x \in BOOLEAN, i \in Indices(MaxRows), w \in BOOLEAN, g \in GetPosResults :
          (CanAddRow(x, i) /\ onAddRow(x, i, w, g)) =>
              cmds' = IF i = RowsRead(w)
                      THEN <<[op |-> "select-row", pos |-> Pos(g), index |-> i - 1],
                             [op |-> "insert-row-after"],
                             [op |-> "select-row", pos |-> Pos(g), index |-> i]>>
                      ELSE <<[op |-> "select-row", pos |-> Pos(g), index |-> i],
                             [op |-> "insert-row-before"],
                             [op |-> "select-row", pos |-> Pos(g), index |-> i]>>]_vars

\* rowCount = 3, rowIndex = 3 gave [select-row(2), insert-row-after, select-row(3)].
C1_Witness ==
    /\ last = [handler |-> "onAddRow", passed |-> TRUE]
    /\ Len(rows) = 4
    /\ \E p \in {Pos(g) : g \in GetPosResults} :
          cmds = <<[op |-> "select-row", pos |-> p, index |-> 2],
                   [op |-> "insert-row-after"],
                   [op |-> "select-row", pos |-> p, index |-> 3]>>

\* ------------------------------------------------------------------- C2
\* C2: for every row count n and every rowIndex in 0..n, an onAddRow run that
\* gets past its early returns and reads the n rows of the table leaves a
\* table of n+1 rows whose row rowIndex is the new one, the others in their
\* old order, and the new row is the selected row.
C2_AddRowResult ==
    [][\A x \in BOOLEAN, i \in Indices(MaxRows), g \in GetPosResults :
          (CanAddRow(x, i) /\ i <= Len(rows) /\ onAddRow(x, i, TRUE, g)) =>
              /\ Len(rows') = Len(rows) + 1
              /\ rows'[i + 1] = "new"
              /\ \A k \in 1..Len(rows') : k # i + 1 => rows'[k] = "old"
              /\ selection' = [kind |-> "row", index |-> i]]_vars

\* An insert in the middle: the new row is row 1 of four, and selected.
C2_Witness ==
    /\ last = [handler |-> "onAddRow", passed |-> TRUE]
    /\ rows = <<"old", "new", "old", "old">>
    /\ selection = RowSelection(1)
    /\ Len(cmds) = 3
    /\ cmds[2] = AddRowBefore

\* ------------------------------------------------------------------- C3
\* C3: an onAddCol run that gets past its early returns sends exactly three
\* commands, in this order: with colCount the cells read from the first row,
\* select-col(colIndex-1), insert-col-after, select-col(colIndex) when
\* colIndex = colCount, and select-col(colIndex), insert-col-before,
\* select-col(colIndex) otherwise.
C3_AddColSequence ==
    [][\A x \in BOOLEAN, i \in Indices(MaxCols), w \in BOOLEAN, g \in GetPosResults :
          (CanAddCol(x, i) /\ onAddCol(x, i, w, g)) =>
              cmds' = IF i = ColsRead(w)
                      THEN <<[op |-> "select-col", pos |-> Pos(g), index |-> i - 1],
                             [op |-> "insert-col-after"],
                             [op |-> "select-col", pos |-> Pos(g), index |-> i]>>
                      ELSE <<[op |-> "select-col", pos |-> Pos(g), index |-> i],
                             [op |-> "insert-col-before"],
                             [op |-> "select-col", pos |-> Pos(g), index |-> i]>>]_vars

\* colCount = 2, colIndex = 2 gave [select-col(1), insert-col-after, select-col(2)].
C3_Witness ==
    /\ last = [handler |-> "onAddCol", passed |-> TRUE]
    /\ Len(cols) = 3
    /\ cols[3] = "new"
    /\ \E p \in {Pos(g) : g \in GetPosResults} :
          cmds = <<[op |-> "select-col", pos |-> p, index |-> 1],
                   [op |-> "insert-col-after"],
                   [op |-> "select-col", pos |-> p, index |-> 2]>>

\* ------------------------------------------------------------------- C4
\* C4: a handler run on a non-editable surface, whatever the hover index and
\* the state, sends no document-mutating command (insert, delete, set-align)
\* and leaves the table as it was; only select commands may be sent.
C4_ReadOnlySendsNoMutation ==
    [][(~editable /\ HandlerStep) =>
          /\ \A k \in 1..Len(cmds') : cmds'[k].op \notin MutatingOps
          /\ rows' = rows
          /\ cols' = cols]_vars

\* deleteSelected ran with a ctx, over a selected row it could have deleted,
\* and returned early: the surface was not editable.
C4_Witness ==
    /\ last = [handler |-> "deleteSelected", passed |-> FALSE]
    /\ hasCtx
    /\ ~editable
    /\ selection.kind = "row"
    /\ Len(rows) > 1
    /\ cmds = <<>>

\* ------------------------------------------------------------------- C5
\* C5: once hide() is the latest of the show()/hide() calls and every
\* computePosition promise has settled, the element is hidden
\* (dataset.show = "false"), whatever the order in which the promises settled.
C5_HideWins == (lastCall = "hide" /\ pending = <<>>) => show = "false"

\* ------------------------------------------------------------------- C6
\* C6: destroy() called while #initialized is still false (no update() yet, a
\* frame callback still waiting, or every #init() so far failed) throws
\* nothing and leaves the provider not bound to the service, with no gesture
\* listener on the element and the element out of the document.
C6_DestroyBeforeInit ==
    [][(~initialized /\ destroy) =>
          /\ thrown' = thrown
          /\ ~bound'
          /\ ~listeners'
          /\ ~attached']_vars

\* destroy() was called after one failed #init() and with a frame callback
\* still waiting.
C6_Witness ==
    /\ destroyed
    /\ ~initialized
    /\ initCalls = 1
    /\ frames = 1
    /\ ~bound
    /\ ~thrown

\* ------------------------------------------------------------------- C7
\* C7: #init() returns at most once; once #initialized is true no later step
\* runs #init() again, and none attaches the element, binds the provider to
\* the service or adds the gesture listeners again.
C7_InitOnce ==
    /\ [](initOk <= 1)
    /\ [][initialized =>
            /\ initCalls' = initCalls
            /\ initOk' = initOk
            /\ (attached' => attached)
            /\ (bound' => bound)
            /\ (listeners' => listeners)]_vars

\* Two update() calls, both callbacks have run, #init() ran once.
C7_Witness ==
    /\ initialized
    /\ updates = 2
    /\ frames = 0
    /\ initCalls = 1
    /\ initOk = 1
    /\ bound

\* ------------------------------------------------------------------- C8
\* C8: a frame callback whose #init() throws gives nothing to its caller and
\* leaves #initialized false; a frame callback that finds the view and the
\* service there initializes the provider; and, every frame callback being
\* run in the end, a callback waiting while both are there leads to
\* #initialized being true.
C8_FailedInitRetried ==
    /\ [][(InitFrame /\ ~initialized /\ InitOutcome # "done") =>
            (~initialized' /\ thrown' = thrown)]_vars
    /\ [][(InitFrame /\ ~initialized /\ InitOutcome = "done") =>
            initialized']_vars
    /\ ((frames > 0 /\ viewReady /\ serviceReady) ~> initialized)

\* The first #init() failed, the second one returned.
C8_Witness ==
    /\ initialized
    /\ initCalls = 2
    /\ initOk = 1
    /\ ~thrown

\* ------------------------------------------------------------------- C9
\* C9: when a computePosition promise is rejected, the element's
\* dataset.show and position stay what they were, console.error gets the
\* error, no computation is started in its place and nothing is thrown; and
\* after a rejection hide() still hides, show() still starts a computation,
\* and a fulfilled promise still shows the element at its position.
C9_RejectLeavesState ==
    /\ [][\A k \in 1..Len(pending) : Reject(k) =>
            /\ show' = show
            /\ position' = position
            /\ diag' = diag + 1
            /\ Len(pending') = Len(pending) - 1
            /\ shows' = shows
            /\ thrown' = thrown]_vars
    /\ [][(diag > 0 /\ Hide) => show' = "false"]_vars
    /\ [][\A a \in Nodes : (diag > 0 /\ viewReady /\ Show(a)) =>
            pending' = Append(pending, a)]_vars
    /\ [][\A k \in 1..Len(pending) : (diag > 0 /\ Resolve(k)) =>
            (show' = "true" /\ position' = pending[k])]_vars

\* Of two computations one was rejected and the element is shown where the
\* other one put it.
C9_Witness ==
    /\ diag = 1
    /\ shows = 2
    /\ pending = <<>>
    /\ show = "true"
    /\ position = "A"

\* ------------------------------------------------------------------ C10
\* C10: a selectRow run (with its ctx) sends exactly one command,
\* select-row(pos, rowIndex), and flips the flag of the row handle's button
\* group between "true" and "false" exactly when rowIndex > 0; for row 0 (and
\* for no hovered row) the flag keeps its value.
C10_SelectRowToggle ==
    [][\A i \in Indices(MaxRows), b \in BOOLEAN, g \in GetPosResults :
          (hasCtx /\ selectRow(i, b, g)) =>
              /\ cmds' = <<[op |-> "select-row", pos |-> Pos(g), index |-> i]>>
              /\ (i <= 0 => rowGroupShow' = rowGroupShow)
              /\ (i > 0 /\ b =>
                    /\ rowGroupShow = "true" => rowGroupShow' = "false"
                    /\ rowGroupShow = "false" => rowGroupShow' = "true")]_vars

\* Row 2 was selected and the flag, rendered "false", now reads "true".
C10_Witness ==
    /\ last = [handler |-> "selectRow", passed |-> TRUE]
    /\ rowGroupShow = "true"
    /\ Len(cmds) = 1
    /\ cmds[1].op = "select-row"
    /\ cmds[1].index = 2

\* ------------------------------------------------------------------ C11
\* C11: the middleware list every show() hands to computePosition is the flip
\* rule, then the offset rule exactly when getOffset was supplied, then the
\* caller's extra rules in their order, whatever the options, the solver
\* option overrides included.
C11_MiddlewareOrder ==
    solverArgs # Undefined =>
        solverArgs[1].config.middleware =
            <<"flip">> \o (IF options.getOffset THEN <<"offset">> ELSE <<>>)
                      \o options.middleware

\* ------------------------------------------------------------------ C12
\* C12: hide() leaves the element hidden whatever the state it is called in,
\* starts no computePosition call and touches nothing else; called again
\* once the element is hidden it changes nothing, so two calls leave what
\* one call leaves.
C12_HideIdempotent ==
    /\ [][Hide =>
            /\ show' = "false"
            /\ pending' = pending
            /\ shows' = shows
            /\ solverArgs' = solverArgs
            /\ position' = position]_vars
    /\ [][(show = "false" /\ lastCall = "hide" /\ Hide) =>
            (show' = show /\ lastCall' = lastCall /\ pending' = pending)]_vars

\* The element was shown at A, hidden, and hide() was then called again on
\* the hidden element.
C12_Witness ==
    /\ lastCall = "hide"
    /\ hidFrom = "false"
    /\ position = "A"
    /\ show = "false"
    /\ pending = <<>>

\* ------------------------------------------------------------------ C13
\* C13: destroy(), in any state, initialized or not, throws nothing and
\* leaves the provider not bound, with no gesture listener on the element
\* and the element out of the document; called on a provider that destroy()
\* already left so, it changes nothing.
C13_DestroyIdempotent ==
    /\ [][destroy =>
            /\ thrown' = thrown
            /\ ~bound'
            /\ ~listeners'
            /\ ~attached']_vars
    /\ [][(destroyed /\ ~bound /\ ~listeners /\ ~attached /\ destroy) =>
            UNCHANGED <<viewReady, serviceReady, initialized, service,
                        attached, draggable, bound, listeners, show, position,
                        activeNode, pending, frames, diag, thrown>>]_vars

\* destroy() was called twice on an initialized provider.
C13_Witness ==
    /\ destroyedAgain
    /\ initialized
    /\ service
    /\ frames = 0
    /\ ~bound
    /\ ~listeners
    /\ ~attached
    /\ ~thrown

\* ------------------------------------------------------------------ C14
\* C14: an onAddRow or onAddCol run whose hover index is negative or greater
\* than the table's row (column) count, or that finds the surface
\* non-editable or no gridline handle element, sends no command and leaves
\* the three show flags as they were.
C14_RejectedInsertIsNoOp ==
    /\ [][\A x \in BOOLEAN, i \in Indices(MaxRows), w \in BOOLEAN,
            g \in GetPosResults :
            (/\ onAddRow(x, i, w, g)
             /\ (i < 0 \/ i > Len(rows) \/ ~editable \/ ~x))
                => /\ cmds' = <<>>
                   /\ UNCHANGED <<xLineShow, rowGroupShow, colGroupShow>>]_vars
    /\ [][\A x \in BOOLEAN, i \in Indices(MaxCols), w \in BOOLEAN,
            g \in GetPosResults :
            (/\ onAddCol(x, i, w, g)
             /\ (i < 0 \/ i > Len(cols) \/ ~editable \/ ~x))
                => /\ cmds' = <<>>
                   /\ UNCHANGED <<xLineShow, rowGroupShow, colGroupShow>>]_vars

\* ------------------------------------------------------------------ C15
\* C15: whatever messages the service has delivered to the bound handler,
\* the provider's active value is the node of the latest message when that
\* was a show message, and null when it was a hide message or when no
\* message has come yet.
C15_ActiveFollowsMessages ==
    activeNode = (IF lastMessage \in Nodes THEN lastMessage ELSE "null")

\* A show message for A, then one for B: active is B.
C15_Witness ==
    /\ initialized
    /\ lastMessage = "B"
    /\ activeNode = "B"
    /\ pending = <<"A", "B">>

\* ------------------------------------------------------------------ C16
\* C16: on an editable surface deleteSelected sends exactly one command,
\* delete-selected-cells, and onAlign(direction) exactly one,
\* set-align(direction), within the handler run; the run itself gives no
\* focus and leaves one more callback waiting behind those already there;
\* focus is given only by a frame callback, and the frame runs the callback
\* that has waited longest, so the callbacks run in the order of their
\* gestures.
C16_CommandThenFocus ==
    /\ [][(CanDelete /\ deleteSelected) =>
            /\ cmds' = <<[op |-> "delete-selected-cells"]>>
            /\ focused' = focused
            /\ rafQueue' = rafQueue \o <<"deleteSelected">>]_vars
    /\ [][\A d \in Directions : (CanAlign /\ onAlign(d)) =>
            /\ cmds' = <<[op |-> "set-align", direction |-> d]>>
            /\ focused' = focused
            /\ rafQueue' = rafQueue \o <<"onAlign">>]_vars
    /\ [][focused' # focused =>
            (rafQueue # <<>> /\ rafQueue' = Tail(rafQueue))]_vars
    /\ [][Len(rafQueue') < Len(rafQueue) =>
            (focused' /\ rafQueue = <<Head(rafQueue)>> \o rafQueue')]_vars

\* A delete gesture and then an align gesture before any frame: both
\* commands are sent, both callbacks wait, the delete's first, and focus is
\* not given yet.
C16_Witness ==
    /\ rafQueue = <<"deleteSelected", "onAlign">>
    /\ ~focused
    /\ last = [handler |-> "onAlign", passed |-> TRUE]
    /\ cmds = <<SetAlign("center")>>
    /\ eventHandled

\* ------------------------------------------------------------------ C17
\* C17: an onAddRow run that gets past its early returns ends with the
\* gridline handle's show flag "false", whatever it was; an onAddCol run,
\* passing or not, leaves that flag exactly as it was.
C17_RowHidesLineColDoesNot ==
    /\ [][\A x \in BOOLEAN, i \in Indices(MaxRows), w \in BOOLEAN,
            g \in GetPosResults :
            (CanAddRow(x, i) /\ onAddRow(x, i, w, g)) =>
                xLineShow' = "false"]_vars
    /\ [][\A x \in BOOLEAN, i \in Indices(MaxCols), w \in BOOLEAN,
            g \in GetPosResults :
            onAddCol(x, i, w, g) => xLineShow' = xLineShow]_vars

\* A column was inserted while the gridline handle was shown, and it still
\* is.
C17_Witness ==
    /\ last = [handler |-> "onAddCol", passed |-> TRUE]
    /\ Len(cmds) = 3
    /\ xLineShow = "true"

\* ------------------------------------------------------------------ C18
\* C18: a provider is built hidden and uninitialized; the flag becomes
\* "true" only in a step in which a computePosition promise started by
\* show() is fulfilled; a show() call, direct or for a show message, leaves
\* the flag and the position as they were; and #initialized becomes true
\* only in a frame callback whose #init() returned.
C18_ShownOnlyOnResolve ==
    /\ (show = "false" /\ ~initialized /\ position = "unset")
    /\ [][(show # "true" /\ show' = "true") =>
            \E k \in 1..Len(pending) : Resolve(k)]_vars
    /\ [][\A a \in Nodes : (Show(a) \/ OnShowMessage(a)) =>
            (show' = show /\ position' = position)]_vars
    /\ [][(~initialized /\ initialized') =>
            (InitFrame /\ InitOutcome = "done")]_vars

\* One show(A) on a provider never initialized, its promise fulfilled: the
\* element is shown at A.
C18_Witness ==
    /\ ~initialized
    /\ shows = 1
    /\ pending = <<>>
    /\ show = "true"
    /\ position = "A"
    /\ diag = 0

\* ------------------------------------------------------------------ C19
\* C19: once destroy() has been called no later step puts the element back
\* in the document, binds the provider to the service or adds the gesture
\* listeners: not a frame callback of an earlier update(), not a further
\* update(), not a settling promise.
C19_DestroyIsFinal ==
    [][destroyed =>
          /\ (attached' => attached)
          /\ (bound' => bound)
          /\ (listeners' => listeners)]_vars

\* ------------------------------------------------------------------ C20
\* C20: once every computePosition promise has been fulfilled, none
\* rejected, the element is positioned for the node of the latest show()
\* call, in whatever order the promises were fulfilled.
C20_LastShowWins ==
    (solverArgs # Undefined /\ pending = <<>> /\ diag = 0) =>
        position = solverArgs[1].reference

=============================================================================
